---- MODULE Spec2Model ----
(***************************************************************************)
(* A model of the Redis-compatible key-value server of this repository:    *)
(* the RESP codec (src/src/resp.rs), the command interpreter and the store *)
(* (src/src/redis.rs), the snapshot loader (src/src/rdb.rs) and the        *)
(* connection/actor tasks (src/src/main.rs).                               *)
(*                                                                         *)
(* Text and buffers are sequences of one-character strings, one element    *)
(* per byte, so that lengths, cursors and terminators are those of the     *)
(* wire.  A Result is a record with kind "Ok", "Err" or "Panic"; "Panic"   *)
(* is a Rust panic (unwrap on Err/None, an index or a slice out of range,  *)
(* todo!, panic!), which unwinds the task that runs the code.              *)
(***************************************************************************)
EXTENDS Integers, Sequences, FiniteSets, TLC

VARIABLES
    \* ---- the store actor (redis.rs, main.rs) ----
    store,          \* Redis.store: key -> value
    expiry_table,   \* Redis.expiry_table: key -> deadline in ms
    config,         \* Redis.config: option name -> value
    actor,          \* the message_handler task: "new", "running" or "panicked"
    queue,          \* the mpsc channel: sequence of [message, resp]
    conn,           \* per connection: the position of handle_connection
    slot,           \* per connection: the oneshot it awaits (0 = none)
    arrived,        \* history: every message enqueued, in arrival order
    replies,        \* per oneshot: the sequence of strings sent on it
    log,            \* history: per message handled, the command, the time, the outcome
    now,            \* SystemTime::now() in ms since the epoch when a message was last handled
    boot,           \* history: the struct Redis::new returned
    argv,           \* the command line of the process
    rdb_file,       \* the bytes at the path dir/dbfilename, or NoFile
    \* ---- the codec on its own (resp.rs) ----
    cpc,            \* "value", "encoded", "raw", "decoded" or "idle"
    cval,           \* the Resp value given to encoded()
    cwire,          \* the buffer given to decode()
    cmeta,          \* how a raw buffer was put together
    cres,           \* the Result of decode()
    \* ---- the length-encoded strings of the snapshot loader on their own (rdb.rs) ----
    rpc,            \* "idle", "cursor" (before a length), "length" (before its string) or "panicked"
    rslice,         \* slice: the bytes of the file
    rseek,          \* seek: the cursor into slice
    rres            \* history: per string read, where it began and what was returned

storeVars == <<store, expiry_table, config, actor, queue, conn, slot, arrived, replies, log, now, boot, argv, rdb_file>>
codecVars == <<cpc, cval, cwire, cmeta, cres>>
rdbVars == <<rpc, rslice, rseek, rres>>
vars == <<store, expiry_table, config, actor, queue, conn, slot, arrived, replies, log, now, boot,
          argv, rdb_file, cpc, cval, cwire, cmeta, cres, rpc, rslice, rseek, rres>>

----------------------------------------------------------------------------
(* Bytes and text *)

CR == "\r"
LF == "\n"
CRLF == <<CR, LF>>

DigitChars == <<"0", "1", "2", "3", "4", "5", "6", "7", "8", "9">>
UpperChars == <<"A", "B", "C", "D", "E", "F", "G", "H", "I", "J", "K", "L", "M",
                "N", "O", "P", "Q", "R", "S", "T", "U", "V", "W", "X", "Y", "Z">>
LowerChars == <<"a", "b", "c", "d", "e", "f", "g", "h", "i", "j", "k", "l", "m",
                "n", "o", "p", "q", "r", "s", "t", "u", "v", "w", "x", "y", "z">>

Range(s) == {s[i] : i \in 1..Len(s)}

IsDigit(c) == c \in Range(DigitChars)
DigitVal(c) == (CHOOSE i \in 1..10 : DigitChars[i] = c) - 1

\* str::to_lowercase on the ASCII letters
to_lowercase_char(c) ==
    IF c \in Range(UpperChars)
    THEN LowerChars[CHOOSE i \in 1..26 : UpperChars[i] = c]
    ELSE c
to_lowercase(s) == [i \in 1..Len(s) |-> to_lowercase_char(s[i])]

RECURSIVE Concat(_)
\* the sequences of ss, one after the other
Concat(ss) == IF ss = <<>> THEN <<>> ELSE Head(ss) \o Concat(Tail(ss))

\* Bytes::advance(n): the buffer without its first n bytes
advance(b, n) == SubSeq(b, n + 1, Len(b))

ends_with(s, suffix) ==
    /\ Len(s) >= Len(suffix)
    /\ SubSeq(s, Len(s) - Len(suffix) + 1, Len(s)) = suffix

\* str::contains(char)
contains(s, c) == \E i \in 1..Len(s) : s[i] = c

\* str::split_once("\r\n"): around the first CRLF
split_once(s) ==
    LET at == {i \in 1..(Len(s) - 1) : s[i] = CR /\ s[i + 1] = LF}
    IN  IF at = {} THEN [found |-> FALSE, before |-> <<>>, after |-> <<>>]
        ELSE LET i == CHOOSE j \in at : \A k \in at : j <= k
             IN  [found |-> TRUE,
                  before |-> SubSeq(s, 1, i - 1),
                  after |-> SubSeq(s, i + 2, Len(s))]

RECURSIVE DigitsValue(_)
DigitsValue(d) ==
    IF d = <<>> THEN 0
    ELSE DigitsValue(SubSeq(d, 1, Len(d) - 1)) * 10 + DigitVal(d[Len(d)])

AllDigits(d) == d # <<>> /\ \A i \in 1..Len(d) : IsDigit(d[i])

\* str::parse::<usize>() and ::<u64>(): an optional '+', then digits only
parse_unsigned(s) ==
    LET d == IF s # <<>> /\ s[1] = "+" THEN Tail(s) ELSE s
    IN  IF AllDigits(d) THEN [ok |-> TRUE, v |-> DigitsValue(d)]
        ELSE [ok |-> FALSE, v |-> 0]

\* str::parse::<i64>(): an optional '+' or '-', then digits only
parse_signed(s) ==
    LET neg == s # <<>> /\ s[1] = "-"
        d == IF s # <<>> /\ s[1] \in {"+", "-"} THEN Tail(s) ELSE s
    IN  IF AllDigits(d)
        THEN [ok |-> TRUE, v |-> IF neg THEN 0 - DigitsValue(d) ELSE DigitsValue(d)]
        ELSE [ok |-> FALSE, v |-> 0]

RECURSIVE NatDigits(_)
NatDigits(n) ==
    IF n < 10 THEN <<DigitChars[n + 1]>>
    ELSE NatDigits(n \div 10) \o <<DigitChars[(n % 10) + 1]>>

\* format!("{}", i) of an integer
fmt_int(i) == IF i < 0 THEN <<"-">> \o NatDigits(0 - i) ELSE NatDigits(i)

INF == <<"i", "n", "f">>

\* The doubles of the model are the integral ones, [inf |-> 0, n |-> the integer],
\* and the two infinities, [inf |-> 1 or -1, n |-> 0].
Finite(n) == [inf |-> 0, n |-> n]
Infinity(sign) == [inf |-> sign, n |-> 0]

\* format!("{}", d) of an f64
fmt_double(d) ==
    IF d.inf = 1 THEN INF
    ELSE IF d.inf = -1 THEN <<"-">> \o INF
    ELSE fmt_int(d.n)

\* str::parse::<f64>() on the texts of the model: a signed integer or a signed "inf"
parse_double(s) ==
    LET neg == s # <<>> /\ s[1] = "-"
        d == IF s # <<>> /\ s[1] \in {"+", "-"} THEN Tail(s) ELSE s
    IN  IF d = INF THEN [ok |-> TRUE, v |-> Infinity(IF neg THEN -1 ELSE 1)]
        ELSE IF AllDigits(d)
        THEN [ok |-> TRUE, v |-> Finite(IF neg THEN 0 - DigitsValue(d) ELSE DigitsValue(d))]
        ELSE [ok |-> FALSE, v |-> Finite(0)]

----------------------------------------------------------------------------
(* Resp, the protocol value (resp.rs) *)

SimpleString(s) == [t |-> "SimpleString", s |-> s]
SimpleError(s) == [t |-> "SimpleError", e |-> s]
Integer(i) == [t |-> "Integer", i |-> i]
BulkString(b) == [t |-> "BulkString", b |-> b]
Array(a) == [t |-> "Array", a |-> a]
Null == [t |-> "Null"]
Boolean(v) == [t |-> "Boolean", v |-> v]
Double(d) == [t |-> "Double", d |-> d]

Ok(v) == [kind |-> "Ok", v |-> v]
Err == [kind |-> "Err"]
Panic == [kind |-> "Panic"]

(* encode *)

encode_simple_string(s) ==
    IF contains(s, LF) \/ contains(s, CR) THEN Err
    ELSE Ok(<<"+">> \o s \o CRLF)

encode_simple_error(s) ==
    IF contains(s, LF) \/ contains(s, CR) THEN Err
    ELSE Ok(<<"-">> \o s \o CRLF)

encode_integer(int) == Ok(<<":">> \o fmt_int(int) \o CRLF)

\* String::from_utf8 succeeds on the ASCII bytes of the model
encode_bulk_string(bytes) ==
    Ok(<<"$">> \o fmt_int(Len(bytes)) \o CRLF \o bytes \o CRLF)

encode_null == Ok(<<"$", "-", "1">> \o CRLF)

encode_bool(bool) == IF bool THEN Ok(<<"#", "t">> \o CRLF) ELSE Ok(<<"#", "f">> \o CRLF)

encode_double(double) == Ok(<<",">> \o fmt_double(double) \o CRLF)

RECURSIVE encoded(_), encode_elems(_, _, _), encode_elems_skipping(_, _, _)

\* encode_elems, but leaving out the elements that fail to encode
encode_elems_skipping(arr, i, acc) ==
    IF i > Len(arr) THEN Ok(acc)
    ELSE LET e == encoded(arr[i])
         IN  IF e.kind # "Ok" THEN encode_elems_skipping(arr, i + 1, acc)
             ELSE encode_elems_skipping(arr, i + 1, acc \o e.v)

\* the loop of encode_array: the first element that fails ends it ('?')
encode_elems(arr, i, acc) ==
    IF i > Len(arr) THEN Ok(acc)
    ELSE LET e == encoded(arr[i])
         IN  IF e.kind # "Ok" THEN e
             ELSE encode_elems(arr, i + 1, acc \o e.v)

encode_array(arr) == encode_elems(arr, 1, <<"*">> \o fmt_int(Len(arr)) \o CRLF)

encoded(r) ==
    CASE r.t = "SimpleString" -> encode_simple_string(r.s)
      [] r.t = "SimpleError" -> encode_simple_error(r.e)
      [] r.t = "Integer" -> encode_integer(r.i)
      [] r.t = "BulkString" -> encode_bulk_string(r.b)
      [] r.t = "Null" -> encode_null
      [] r.t = "Array" -> encode_array(r.a)
      [] r.t = "Boolean" -> encode_bool(r.v)
      [] r.t = "Double" -> encode_double(r.d)

(* decode: each decode_x(b) gives Ok([v, rest]) with rest the buffer it      *)
(* leaves behind (the &mut Bytes after the call), Err or Panic               *)

Got(v, rest) == Ok([v |-> v, rest |-> rest])

decode_simple_string(b0) ==
    LET b == advance(b0, 1)
        sp == split_once(b)
    IN  IF ~sp.found THEN Err
        ELSE Got(SimpleString(sp.before), advance(b, Len(sp.before) + 2))

decode_simple_error(b0) ==
    LET b == advance(b0, 1)
        sp == split_once(b)
    IN  IF ~sp.found THEN Err
        ELSE Got(SimpleError(sp.before), advance(b, Len(sp.before) + 2))

decode_integer(b0) ==
    LET b == advance(b0, 1)
        sp == split_once(b)
    IN  IF ~sp.found THEN Err
        ELSE LET int == parse_signed(sp.before)
             IN  IF ~int.ok THEN Err
                 ELSE Got(Integer(int.v), advance(b, Len(sp.before) + 2))

decode_bulk_string(b0) ==
    LET b == advance(b0, 1)
    IN  IF Len(b) < 2 THEN Panic                  \* b.len() - 2 / split_at
        ELSE
        LET string == SubSeq(b, 1, Len(b) - 2)    \* all that is left but its last 2 bytes
        IN  IF string = <<"-", "1">> THEN Got(Null, advance(b, 4))
            ELSE
            LET sp == split_once(string)
            IN  IF ~sp.found THEN Err
                ELSE
                LET len == parse_unsigned(sp.before)
                IN  IF ~len.ok THEN Err
                    ELSE IF len.v = 0 THEN Got(BulkString(<<>>), b)   \* returns before any advance
                    ELSE IF len.v > Len(sp.after) THEN Panic          \* remaining.split_at(len)
                    ELSE Got(BulkString(SubSeq(sp.after, 1, len.v)),
                             advance(advance(b, Len(sp.before) + 2), len.v + 2))

decode_boolean(b0) ==
    LET b == advance(b0, 1)
        sp == split_once(b)
    IN  IF ~sp.found THEN Err
        ELSE IF sp.before = <<"t">> THEN Got(Boolean(TRUE), advance(b, 3))
        ELSE IF sp.before = <<"f">> THEN Got(Boolean(FALSE), advance(b, 3))
        ELSE Err

decode_double(b0) ==
    LET b == advance(b0, 1)
        sp == split_once(b)
    IN  IF ~sp.found THEN Err
        ELSE LET double == parse_double(sp.before)
             IN  IF ~double.ok THEN Err
                 ELSE Got(Double(double.v), advance(b, Len(sp.before) + 2))

RECURSIVE decode_bytes(_), decode_elems(_, _, _)

\* the loop of decode_array: len elements, one after the other, from the cursor
decode_elems(b, len, arr) ==
    IF len = 0 THEN Got(Array(arr), b)
    ELSE LET resp == decode_bytes(b)
         IN  IF resp.kind # "Ok" THEN resp
             ELSE decode_elems(resp.v.rest, len - 1, Append(arr, resp.v.v))

decode_array(b0) ==
    LET b == advance(b0, 1)
        sp == split_once(b)
    IN  IF ~sp.found THEN Err
        ELSE LET len == parse_unsigned(sp.before)
             IN  IF ~len.ok THEN Err
                 ELSE decode_elems(advance(b, Len(sp.before) + 2), len.v, <<>>)

decode_bytes(bytes) ==
    IF bytes = <<>> THEN Panic                    \* bytes.first().unwrap()
    ELSE CASE bytes[1] = "+" -> decode_simple_string(bytes)
           [] bytes[1] = "-" -> decode_simple_error(bytes)
           [] bytes[1] = ":" -> decode_integer(bytes)
           [] bytes[1] = "$" -> decode_bulk_string(bytes)
           [] bytes[1] = "*" -> decode_array(bytes)
           [] bytes[1] = "#" -> decode_boolean(bytes)
           [] bytes[1] = "," -> decode_double(bytes)
           [] OTHER -> Err

\* Resp::decode: Ok(value), Err or Panic; what is left of the buffer is dropped
decode(s) ==
    IF ~ends_with(s, CRLF) THEN Err
    ELSE LET r == decode_bytes(s)
         IN  IF r.kind = "Ok" THEN Ok(r.v.v) ELSE r

----------------------------------------------------------------------------
(* Display for Resp (resp.rs), used by the interpreter as to_string() *)

RECURSIVE to_string(_), to_string_elems(_, _)

to_string_elems(b, i) ==
    IF i > Len(b) THEN <<>>
    ELSE to_string(b[i]) \o <<",">> \o to_string_elems(b, i + 1)

to_string(r) ==
    CASE r.t = "SimpleString" -> r.s
      [] r.t = "SimpleError" -> r.e
      [] r.t = "Integer" -> fmt_int(r.i)
      [] r.t = "BulkString" -> r.b
      [] r.t = "Array" -> <<"[">> \o to_string_elems(r.a, 1) \o <<"]">>
      [] r.t = "Null" -> <<"n", "u", "l", "l">>
      [] r.t = "Boolean" -> IF r.v THEN <<"t", "r", "u", "e">> ELSE <<"f", "a", "l", "s", "e">>
      [] r.t = "Double" -> fmt_double(r.d)

----------------------------------------------------------------------------
(* Command and the interpreter (redis.rs) *)

Ping == [c |-> "Ping"]
Echo(message) == [c |-> "Echo", message |-> message]
Set(key, value, options) == [c |-> "Set", key |-> key, value |-> value, options |-> options]
Get(key) == [c |-> "Get", key |-> key]
ConfigGet(key) == [c |-> "ConfigGet", key |-> key]
Keys(pattern) == [c |-> "Keys", pattern |-> pattern]
NotImplemented(cmd) == [c |-> "NotImplemented", cmd |-> cmd]

\* the texts the interpreter matches
T_ping == <<"p", "i", "n", "g">>
T_echo == <<"e", "c", "h", "o">>
T_set == <<"s", "e", "t">>
T_get == <<"g", "e", "t">>
T_config == <<"c", "o", "n", "f", "i", "g">>
T_keys == <<"k", "e", "y", "s">>
T_px == <<"p", "x">>

RECURSIVE parse_set_options(_, _, _)

\* the while loop of parse_set_command over the arguments after key and value
parse_set_options(args, i, options) ==
    IF i > Len(args) THEN Ok(options)
    ELSE IF to_string(args[i]) = T_px
         THEN IF i + 1 > Len(args) THEN Panic                 \* args.next().unwrap()
              ELSE parse_set_options(args, i + 2,
                       Append(options, [name |-> T_px, value |-> to_string(args[i + 1])]))
         ELSE Panic                                           \* todo!("arg: {} not implemented")

parse_set_command(args) ==
    IF Len(args) < 2 THEN Panic                               \* args.next().unwrap()
    ELSE LET options == parse_set_options(args, 3, <<>>)
         IN  IF options.kind # "Ok" THEN options
             ELSE Ok(Set(to_string(args[1]), to_string(args[2]), options.v))

parse_command(command, args) ==
    LET name == to_lowercase(to_string(command))
    IN  CASE name = T_ping -> Ok(Ping)
          [] name = T_echo -> IF Len(args) < 1 THEN Panic     \* args[0]
                              ELSE Ok(Echo(to_string(args[1])))
          [] name = T_set -> parse_set_command(args)
          [] name = T_get -> IF Len(args) < 1 THEN Panic      \* args[0]
                             ELSE Ok(Get(to_string(args[1])))
          [] name = T_config ->
                IF Len(args) < 1 THEN Panic                   \* args[0]
                ELSE IF to_string(args[1]) = T_get
                     THEN IF Len(args) < 2 THEN Panic         \* args[1]
                          ELSE Ok(ConfigGet(to_string(args[2])))
                     ELSE Panic                               \* todo!("subcommand ...")
          [] name = T_keys -> IF Len(args) < 1 THEN Panic     \* args[0]
                              ELSE Ok(Keys(to_string(args[1])))
          [] OTHER -> Ok(NotImplemented(name))

----------------------------------------------------------------------------
(* Redis, the store (redis.rs).  A HashMap is a function on the set of its  *)
(* keys; st is the struct: [store, expiry_table, config].                   *)

EmptyMap == [k \in {} |-> <<>>]
Insert(m, k, v) == [x \in (DOMAIN m) \cup {k} |-> IF x = k THEN v ELSE m[x]]
Remove(m, k) == [x \in (DOMAIN m) \ {k} |-> m[x]]

T_OK == <<"O", "K">>
T_PONG == <<"P", "O", "N", "G">>
\* "ERR command '" and "' not implemented yet"
T_ERR_head == <<"E", "R", "R", " ", "c", "o", "m", "m", "a", "n", "d", " ", "'">>
T_ERR_tail == <<"'", " ", "n", "o", "t", " ", "i", "m", "p", "l", "e", "m", "e", "n", "t", "e", "d",
                " ", "y", "e", "t">>

\* what a command does: Ok with the struct after it and the response, or Panic
Done(st, response) == [kind |-> "Ok", st |-> st, response |-> response]

RECURSIVE set_expiry(_, _, _)

\* the for loop of set over the options: the px of the last one, or none
set_expiry(options, i, expiry) ==
    IF i > Len(options) THEN Ok(expiry)
    ELSE IF options[i].name = T_px
         THEN LET ms == parse_unsigned(options[i].value)
              IN  IF ~ms.ok THEN Panic                        \* parse::<u64>().unwrap()
                  ELSE set_expiry(options, i + 1, [some |-> TRUE, ms |-> ms.v])
         ELSE Panic                                           \* todo!("option ...")

\* set_tables, but a key that has a value keeps it (entry().or_insert())
set_tables_or_insert(st, key, value, expiry, t) ==
    [st EXCEPT !.expiry_table = IF expiry.some THEN Insert(@, key, t + expiry.ms)
                                ELSE Remove(@, key),
               !.store = IF key \in DOMAIN @ THEN @ ELSE Insert(@, key, value)]

\* set_tables, but without the else branch that removes the deadline
set_tables_keeps_deadline(st, key, value, expiry, t) ==
    [st EXCEPT !.expiry_table = IF expiry.some THEN Insert(@, key, t + expiry.ms) ELSE @,
               !.store = Insert(@, key, value)]

\* set_tables, but a value is kept only when no deadline comes with it
set_tables_deadline_alone(st, key, value, expiry, t) ==
    [st EXCEPT !.expiry_table = IF expiry.some THEN Insert(@, key, t + expiry.ms)
                                ELSE Remove(@, key),
               !.store = IF expiry.some THEN Remove(@, key) ELSE Insert(@, key, value)]

\* the two tables after set, given the option's expiry
set_tables(st, key, value, expiry, t) ==
    [st EXCEPT !.expiry_table = IF expiry.some THEN Insert(@, key, t + expiry.ms)
                                ELSE Remove(@, key),
               !.store = Insert(@, key, value)]

set(st, key, value, options, t) ==
    LET expiry == set_expiry(options, 1, [some |-> FALSE, ms |-> 0])
    IN  IF expiry.kind # "Ok" THEN Panic
        ELSE Done(set_tables(st, key, value, expiry.v, t), SimpleString(T_OK))

\* whether get finds the key's deadline passed
expired(st, key, t) == key \in DOMAIN st.expiry_table /\ st.expiry_table[key] < t

\* get, but erasing from both tables the key it finds expired
get_erasing_expired(st, key, t) ==
    IF key \in DOMAIN st.expiry_table /\ st.expiry_table[key] < t
    THEN Done([st EXCEPT !.store = Remove(@, key), !.expiry_table = Remove(@, key)], Null)
    ELSE IF key \in DOMAIN st.store THEN Done(st, BulkString(st.store[key]))
    ELSE Done(st, Null)

get(st, key, t) ==
    IF expired(st, key, t) THEN Done(st, Null)
    ELSE IF key \in DOMAIN st.store THEN Done(st, BulkString(st.store[key]))
    ELSE Done(st, Null)

\* the orders in which a HashMap may yield its keys
Orders(S) == { o \in [1..Cardinality(S) -> S] : \A i, j \in 1..Cardinality(S) : i # j => o[i] # o[j] }

\* config_get, but replying the value alone
config_get_value_only(st, key) ==
    IF key \in DOMAIN st.config
    THEN Done(st, Array(<<BulkString(st.config[key])>>))
    ELSE Done(st, Null)

\* the Command::ConfigGet arm of handle_command
config_get(st, key) ==
    IF key \in DOMAIN st.config
    THEN Done(st, Array(<<BulkString(key), BulkString(st.config[key])>>))
    ELSE Done(st, Null)

\* keys, but only the keys equal to the pattern
keys_matching(st, pattern) ==
    { Done(st, Array([i \in 1..Len(o) |-> BulkString(o[i])]))
        : o \in Orders((DOMAIN st.store) \cap {pattern}) }

\* the Command::Keys arm of handle_command: every key of the store, in the
\* order the HashMap yields them; the pattern is not looked at
keys(st, pattern) ==
    { Done(st, Array([i \in 1..Len(o) |-> BulkString(o[i])])) : o \in Orders(DOMAIN st.store) }

\* handle_command: the set of outcomes (one, but for KEYS, whose order is the HashMap's)
handle_command(st, command, t) ==
    CASE command.c = "Ping" -> { Done(st, SimpleString(T_PONG)) }
      [] command.c = "Echo" -> { Done(st, BulkString(command.message)) }
      [] command.c = "Set" -> { set(st, command.key, command.value, command.options, t) }
      [] command.c = "Get" -> { get(st, command.key, t) }
      [] command.c = "ConfigGet" -> { config_get(st, command.key) }
      [] command.c = "Keys" -> keys(st, command.pattern)
      [] command.c = "NotImplemented" ->
            { Done(st, SimpleError(T_ERR_head \o command.cmd \o T_ERR_tail)) }

\* whether the command reads the clock (ms_since_epoch) when applied to st
reads_clock(st, command) ==
    \/ command.c = "Set" /\ command.options # <<>>
    \/ command.c = "Get" /\ command.key \in DOMAIN st.expiry_table

NoCommand == [c |-> "None"]
NoResponse == [t |-> "None"]

\* what handle_message does: the struct after it, the string sent on the
\* oneshot (sent = FALSE: none), and whether the task panicked
Handled(st, command, response, sent, encoded_response, panicked) ==
    [st |-> st, command |-> command, response |-> response, sent |-> sent,
     encoded_response |-> encoded_response, panicked |-> panicked]

\* after handle_command: encode the response and send it on the oneshot
send_response(command, done, open) ==
    IF done.kind # "Ok" THEN Handled(done.st, command, NoResponse, FALSE, <<>>, TRUE)
    ELSE LET encoded_response == encoded(done.response)
         IN  IF encoded_response.kind # "Ok"                  \* response.encoded().unwrap()
             THEN Handled(done.st, command, done.response, FALSE, <<>>, TRUE)
             ELSE IF ~open                                    \* resp.send(..).unwrap()
             THEN Handled(done.st, command, done.response, FALSE, <<>>, TRUE)
             ELSE Handled(done.st, command, done.response, TRUE, encoded_response.v, FALSE)

\* Redis::handle_message(message, resp) at time t; open: resp's receiver still exists
handle_message(st, message, open, t) ==
    LET decoded_message == decode(to_lowercase(message))
        abort == { Handled(st, NoCommand, NoResponse, FALSE, <<>>, TRUE) }
    IN  IF decoded_message.kind # "Ok" THEN abort             \* decode(..).unwrap()
        ELSE IF decoded_message.v.t # "Array" THEN abort      \* panic!("Invalid message")
        ELSE IF decoded_message.v.a = <<>> THEN abort         \* iter.next().unwrap()
        ELSE LET command == parse_command(Head(decoded_message.v.a), Tail(decoded_message.v.a))
             IN  IF command.kind # "Ok" THEN abort
                 ELSE { send_response(command.v,
                                      IF d.kind = "Ok" THEN d ELSE [kind |-> "Panic", st |-> st],
                                      open)
                          : d \in handle_command(st, command.v, t) }

----------------------------------------------------------------------------
(* The snapshot loader (rdb.rs): a file is a sequence of bytes 0..255, seek  *)
(* counts the bytes before the cursor, so Rust's slice[seek] is              *)
(* slice[seek + 1] here.                                                      *)

\* the character of an ASCII byte
char_of(b) ==
    IF b \in 48..57 THEN DigitChars[b - 47]
    ELSE IF b \in 65..90 THEN UpperChars[b - 64]
    ELSE IF b \in 97..122 THEN LowerChars[b - 96]
    ELSE IF b = 13 THEN CR
    ELSE IF b = 10 THEN LF
    ELSE "0x" \o ToString(b)

\* the byte of a letter or digit
byte_of(c) ==
    CHOOSE b \in (48..57) \cup (65..90) \cup (97..122) : char_of(b) = c

\* b"..." for a text of letters and digits
as_bytes(s) == [i \in 1..Len(s) |-> byte_of(s[i])]

\* whether b is a UTF-8 continuation byte within lo..hi
cont(slice, i, lo, hi) == i <= Len(slice) /\ slice[i] \in lo..hi

\* the number of bytes of the well-formed UTF-8 sequence that starts at
\* slice[i], 0 when there is none
utf8_width(slice, i) ==
    LET b == slice[i]
    IN  IF b < 128 THEN 1
        ELSE IF b \in 194..223 THEN IF cont(slice, i + 1, 128, 191) THEN 2 ELSE 0
        ELSE IF b \in 224..239
        THEN IF /\ cont(slice, i + 1, IF b = 224 THEN 160 ELSE 128, IF b = 237 THEN 159 ELSE 191)
                /\ cont(slice, i + 2, 128, 191)
             THEN 3 ELSE 0
        ELSE IF b \in 240..244
        THEN IF /\ cont(slice, i + 1, IF b = 240 THEN 144 ELSE 128, IF b = 244 THEN 143 ELSE 191)
                /\ cont(slice, i + 2, 128, 191)
                /\ cont(slice, i + 3, 128, 191)
             THEN 4 ELSE 0
        ELSE 0

\* U+FFFD, which from_utf8_lossy puts for bytes that are no UTF-8
REPLACEMENT_CHARACTER == "U+FFFD"

\* the character of the well-formed sequence of w bytes at slice[i]
utf8_char(slice, i, w) ==
    IF w = 1 THEN char_of(slice[i])
    ELSE "u" \o ToString(
            IF w = 2 THEN (slice[i] % 32) * 64 + (slice[i + 1] % 64)
            ELSE IF w = 3
            THEN (slice[i] % 16) * 4096 + (slice[i + 1] % 64) * 64 + (slice[i + 2] % 64)
            ELSE (slice[i] % 8) * 262144 + (slice[i + 1] % 64) * 4096
                    + (slice[i + 2] % 64) * 64 + (slice[i + 3] % 64))

RECURSIVE utf8_chars(_, _, _)
\* the characters of bytes from position i on: ok = FALSE once a byte is no
\* UTF-8 (it is then replaced, byte by byte)
utf8_chars(bytes, i, acc) ==
    IF i > Len(bytes) THEN acc
    ELSE LET w == utf8_width(bytes, i)
         IN  IF w = 0
             THEN utf8_chars(bytes, i + 1,
                             [ok |-> FALSE, s |-> Append(acc.s, REPLACEMENT_CHARACTER)])
             ELSE utf8_chars(bytes, i + w,
                             [ok |-> acc.ok, s |-> Append(acc.s, utf8_char(bytes, i, w))])

\* std::str::from_utf8
from_utf8(bytes) ==
    LET r == utf8_chars(bytes, 1, [ok |-> TRUE, s |-> <<>>])
    IN  IF r.ok THEN Ok(r.s) ELSE Err

\* String::from_utf8_lossy(..).to_string()
from_utf8_lossy(bytes) == utf8_chars(bytes, 1, [ok |-> TRUE, s |-> <<>>]).s

\* enum LengthEncoding
SixBit(n) == [enc |-> "SixBit", n |-> n]
FourteenBit(n) == [enc |-> "FourteenBit", n |-> n]
ThirtyTwoBit(n) == [enc |-> "ThirtyTwoBit", n |-> n]
Encoded(format) == [enc |-> "Encoded", n |-> format]

\* a value read, and the cursor after it
Seeked(v, seek) == [kind |-> "Ok", v |-> v, seek |-> seek]

\* read_length_encoding, but the 14-bit length keeps the tag bits of its first byte
read_length_encoding_unmasked(slice, seek) ==
    IF seek >= Len(slice) THEN Panic
    ELSE LET first_byte == slice[seek + 1]
             ms_bits == first_byte \div 64
         IN  CASE ms_bits = 0 -> Seeked(SixBit(first_byte % 64), seek + 1)
               [] ms_bits = 1 ->
                     IF seek + 1 >= Len(slice) THEN Panic
                     ELSE Seeked(FourteenBit(first_byte * 256 + slice[seek + 2]), seek + 2)
               [] ms_bits = 2 ->
                     IF seek + 4 >= Len(slice) THEN Panic
                     ELSE Seeked(ThirtyTwoBit(slice[seek + 2] + slice[seek + 3] * 256
                                                + slice[seek + 4] * 65536
                                                + slice[seek + 5] * 16777216),
                                 seek + 5)
               [] ms_bits = 3 -> Seeked(Encoded(first_byte % 64), seek + 1)

\* Rdb::read_length_encoding; an index beyond the slice panics
read_length_encoding(slice, seek) ==
    IF seek >= Len(slice) THEN Panic
    ELSE LET first_byte == slice[seek + 1]
             ms_bits == first_byte \div 64
         IN  CASE ms_bits = 0 -> Seeked(SixBit(first_byte % 64), seek + 1)
               [] ms_bits = 1 ->
                     IF seek + 1 >= Len(slice) THEN Panic
                     ELSE Seeked(FourteenBit((first_byte % 64) * 256 + slice[seek + 2]), seek + 2)
               [] ms_bits = 2 ->
                     IF seek + 4 >= Len(slice) THEN Panic
                     ELSE Seeked(ThirtyTwoBit(slice[seek + 2] + slice[seek + 3] * 256
                                                + slice[seek + 4] * 65536
                                                + slice[seek + 5] * 16777216),
                                 seek + 5)
               [] ms_bits = 3 -> Seeked(Encoded(first_byte % 64), seek + 1)

\* LengthEncoding::decode_from: the text, and the cursor after it
decode_from(length_encoding, slice, seek) ==
    IF length_encoding.enc # "Encoded"
    THEN LET length == length_encoding.n
         IN  IF seek + length > Len(slice) THEN Panic     \* slice[*seek..*seek + length]
             ELSE Seeked(from_utf8_lossy(SubSeq(slice, seek + 1, seek + length)), seek + length)
    ELSE CASE length_encoding.n = 0 ->
                 IF Len(slice) < 1 THEN Panic
                 ELSE Seeked(fmt_int(slice[1]), seek + 1)
           [] length_encoding.n = 1 ->
                 IF Len(slice) < 2 THEN Panic
                 ELSE Seeked(fmt_int(slice[1] * 256 + slice[2]), seek + 2)
           [] length_encoding.n = 2 ->
                 IF Len(slice) < 4 THEN Panic
                 ELSE Seeked(fmt_int(slice[1] + slice[2] * 256 + slice[3] * 65536
                                       + slice[4] * 16777216),
                             seek + 4)
           [] OTHER -> Panic                              \* todo!, unreachable!

\* read_length_encoding(slice, &mut seek).decode_from(slice, &mut seek)
read_string(slice, seek) ==
    LET length_encoding == read_length_encoding(slice, seek)
    IN  IF length_encoding.kind # "Ok" THEN Panic
        ELSE decode_from(length_encoding.v, slice, length_encoding.seek)

REDIS == <<82, 69, 68, 73, 83>>

RECURSIVE load_opcodes(_, _, _)
\* the loop of load_from_path: one opcode and what follows it, until the end
\* of the file or the opcode 0xFF
load_opcodes(slice, seek, store_) ==
    IF seek >= Len(slice) THEN Ok(store_)
    ELSE LET opcode == slice[seek + 1]
         IN  CASE opcode = 255 -> Ok(store_)
               [] opcode = 250 ->
                     LET first_string == read_string(slice, seek + 1)
                     IN  IF first_string.kind # "Ok" THEN Panic
                         ELSE LET second_string == read_string(slice, first_string.seek)
                              IN  IF second_string.kind # "Ok" THEN Panic
                                  ELSE load_opcodes(slice, second_string.seek, store_)
               [] opcode = 254 ->
                     LET key == read_string(slice, seek + 1)
                     IN  IF key.kind # "Ok" THEN Panic
                         ELSE load_opcodes(slice, key.seek, store_)
               [] opcode = 251 ->
                     IF seek + 2 >= Len(slice) THEN Panic \* slice[seek], slice[seek + 1]
                     ELSE load_opcodes(slice, seek + 3, store_)
               [] opcode = 0 ->
                     LET key == read_string(slice, seek + 1)
                     IN  IF key.kind # "Ok" THEN Panic
                         ELSE LET value == read_string(slice, key.seek)
                              IN  IF value.kind # "Ok" THEN Panic
                                  ELSE load_opcodes(slice, value.seek, Insert(store_, key.v, value.v))
               [] OTHER -> Panic                          \* todo!("opcode: .. not implemented")

\* a path at which no file exists
NoFile == <<-1>>

\* Rdb::load_from_path, given what is at the path: the keyspace, or a panic
load_from_path(file) ==
    IF file = NoFile THEN Ok(EmptyMap)                    \* !path.exists()
    ELSE IF Len(file) < 5 \/ SubSeq(file, 1, 5) # REDIS THEN Panic   \* assert!
    ELSE IF Len(file) < 9 THEN Panic                      \* slice[seek..seek + 4]
    ELSE IF from_utf8(SubSeq(file, 6, 9)).kind # "Ok" THEN Panic     \* from_utf8(..).unwrap()
    ELSE load_opcodes(file, 9, EmptyMap)

----------------------------------------------------------------------------
(* Redis::new: the command line, then the snapshot at dir/dbfilename *)

A_dir == <<"-", "-", "d", "i", "r">>
A_dbfilename == <<"-", "-", "d", "b", "f", "i", "l", "e", "n", "a", "m", "e">>

RECURSIVE parse_arguments_from(_, _, _)
\* the while-let loop of parse_command_line_arguments, from argument i on
parse_arguments_from(args, i, config_) ==
    IF i > Len(args) THEN Ok(config_)
    ELSE IF args[i] \in {A_dir, A_dbfilename}
    THEN IF i + 1 > Len(args) THEN Panic                  \* args.next().unwrap()
         ELSE parse_arguments_from(args, i + 2,
                                   Insert(config_, advance(args[i], 2), args[i + 1]))
    ELSE Panic                                            \* todo!("arg: .. not implemented")

\* Redis::parse_command_line_arguments: the program name is skipped
parse_command_line_arguments(args) == parse_arguments_from(args, 2, EmptyMap)

\* Redis::new(args), with file what is at the path dir/dbfilename: the struct,
\* or a panic
Redis_new(args, file) ==
    LET parsed == parse_command_line_arguments(args)
    IN  IF parsed.kind # "Ok" THEN Panic
        ELSE IF <<"d", "i", "r">> \in DOMAIN parsed.v
                  /\ <<"d", "b", "f", "i", "l", "e", "n", "a", "m", "e">> \in DOMAIN parsed.v
        THEN LET loaded == load_from_path(file)
             IN  IF loaded.kind # "Ok" THEN Panic
                 ELSE Ok([store |-> loaded.v, expiry_table |-> EmptyMap, config |-> parsed.v])
        ELSE Ok([store |-> EmptyMap, expiry_table |-> EmptyMap, config |-> parsed.v])

----------------------------------------------------------------------------
(* The server: connections (handle_connection), the command queue and the   *)
(* task that owns the Redis struct and handles one message at a time.       *)

MaxMessages == 3
MaxTime == 2
QueueCapacity == 32

Conns == {"c1", "c2"}

\* a request as a client writes it: an array of bulk strings
Request(words) == encoded(Array([i \in 1..Len(words) |-> BulkString(words[i])])).v

W_PING == <<"P", "I", "N", "G">>
W_ECHO == <<"E", "C", "H", "O">>
W_SET == <<"S", "E", "T">>
W_GET == <<"G", "E", "T">>
W_KEYS == <<"K", "E", "Y", "S">>
W_CONFIG == <<"C", "O", "N", "F", "I", "G">>
W_PX == <<"P", "X">>
W_XX == <<"X", "X">>
W_FOO == <<"F", "O", "O">>
W_dir == <<"d", "i", "r">>
W_dbfilename == <<"d", "b", "f", "i", "l", "e", "n", "a", "m", "e">>
W_tmp == <<"/", "t", "m", "p">>
W_rdb == <<"d", ".", "r", "d", "b">>

\* requests the interpreter and the store accept
GoodMessages ==
    { Request(<<W_PING>>),
      Request(<<W_ECHO, <<"H", "i">>>>),
      Request(<<W_SET, <<"k">>, <<"a">>>>),
      Request(<<W_SET, <<"k">>, <<"b">>, W_PX, <<"1">>>>),
      Request(<<W_GET, <<"k">>>>),
      Request(<<W_GET, <<"j">>>>),
      Request(<<W_KEYS, <<"*">>>>),
      Request(<<W_CONFIG, W_GET, W_dir>>) }

\* requests with a command name outside the table
UnknownMessages ==
    { Request(<<W_FOO>>),
      Request(<<<<"f", LF, "o">>>>) }

\* requests that lack a required argument
MissingArgument ==
    { Request(<<W_ECHO>>),
      Request(<<W_GET>>),
      Request(<<W_KEYS>>),
      Request(<<W_SET>>),
      Request(<<W_SET, <<"k">>>>),
      Request(<<W_CONFIG>>),
      Request(<<W_CONFIG, W_GET>>) }

\* SET with an option name that is not PX
UnknownOption == { Request(<<W_SET, <<"k">>, <<"a">>, W_XX, <<"1">>>>) }

\* SET PX without its value, or with one that is no number; CONFIG with another sub-command
OtherBadArgument ==
    { Request(<<W_SET, <<"k">>, <<"a">>, W_PX>>),
      Request(<<W_SET, <<"k">>, <<"a">>, W_PX, <<"x">>>>),
      Request(<<W_CONFIG, W_SET, W_dir>>) }

\* bytes that are no request: not terminated, not an array, an empty array,
\* a bulk string shorter than its declared length
NotARequest ==
    { W_PING,
      <<"+">> \o W_PING \o CRLF,
      <<"*", "0">> \o CRLF,
      <<"*", "1">> \o CRLF \o <<"$", "9">> \o CRLF \o W_PING \o CRLF }

\* every request a single client sends in SpecSerial
Requests ==
    GoodMessages \cup UnknownMessages \cup MissingArgument \cup UnknownOption
      \cup OtherBadArgument \cup NotARequest

\* the requests the concurrent clients of Spec send: two that change what a
\* later one is answered, one that reads it, one that lacks its argument
Messages ==
    { Request(<<W_SET, <<"k">>, <<"a">>>>),
      Request(<<W_SET, <<"k">>, <<"b">>>>),
      Request(<<W_GET, <<"k">>>>),
      Request(<<W_GET>>) }

\* the well-formed SET and GET requests a single client sends in SpecStore
StoreMessages ==
    { Request(<<W_SET, <<"k">>, <<"a">>>>),
      Request(<<W_SET, <<"k">>, <<"b">>, W_PX, <<"1">>>>),
      Request(<<W_GET, <<"k">>>>),
      Request(<<W_GET, <<"j">>>>) }

\* ---- snapshot files, by the sections written into them ----

\* a string of fewer than 64 bytes, length-encoded in one byte
Str(s) == <<Len(s)>> \o as_bytes(s)

S_aux == [op |-> "aux", key |-> <<"v">>, value |-> <<"7">>]
S_selectdb(n) == [op |-> "selectdb", db |-> n]
S_resizedb == [op |-> "resizedb"]
S_string(k, v) == [op |-> "string", key |-> k, value |-> v, int |-> FALSE]
\* a string record whose value is written as an 8-bit integer
S_int(k, n) == [op |-> "string", key |-> k, value |-> fmt_int(n), int |-> TRUE]
\* an opcode the loader has no arm for (0xFC: an expiry in ms, 8 bytes)
S_other == [op |-> "other"]
S_eof == [op |-> "eof"]

\* the bytes of a section
SectionBytes(sec) ==
    CASE sec.op = "aux" -> <<250>> \o Str(sec.key) \o Str(sec.value)
      [] sec.op = "selectdb" -> <<254, sec.db>>
      [] sec.op = "resizedb" -> <<251, 1, 0>>
      [] sec.op = "string" ->
            <<0>> \o Str(sec.key)
                \o (IF sec.int THEN <<192, DigitsValue(sec.value)>> ELSE Str(sec.value))
      [] sec.op = "other" -> <<252, 0, 0, 0, 0, 0, 0, 0, 0>>
      [] sec.op = "eof" -> <<255>>

\* std::fs::read(path): the magic, the version and the sections
file_contents(sections) ==
    REDIS \o as_bytes(<<"0", "0", "0", "3">>)
          \o Concat([i \in 1..Len(sections) |-> SectionBytes(sections[i])])

\* no file at the path
Missing == <<[op |-> "missing"]>>

\* what the loader is given for a file written as sections
PathContents(sections) == IF sections = Missing THEN NoFile ELSE file_contents(sections)

Snapshots ==
    { Missing,
      <<S_eof>>,
      <<S_aux, S_selectdb(0), S_resizedb, S_string(<<"k">>, <<"v">>), S_eof>>,
      <<S_string(<<"k">>, <<"v">>), S_string(<<"j">>, <<"s">>), S_eof>>,
      <<S_string(<<"k">>, <<"v">>), S_string(<<"k">>, <<"w">>)>>,
      <<S_selectdb(1), S_string(<<"k">>, <<"v">>), S_eof>>,
      <<S_string(<<"k">>, <<"v">>), S_int(<<"n">>, 7), S_eof>>,
      <<S_string(<<"k">>, <<"v">>), S_other, S_string(<<"j">>, <<"s">>), S_eof>> }

\* ---- command lines ----
W_prog == <<"r", "e", "d", "i", "s">>
NoArguments == <<W_prog>>
DirOnly == <<W_prog, A_dir, W_tmp>>
DirAndFile == <<W_prog, A_dir, W_tmp, A_dbfilename, W_rdb>>
UnknownArgument == <<W_prog, <<"-", "-", "p", "o", "r", "t">>, <<"1">>>>

\* the command lines and files a process is started with in SpecBoot
Inputs ==
    { [argv |-> a, rdb_file |-> Missing] : a \in {NoArguments, DirOnly, UnknownArgument} }
      \cup { [argv |-> DirAndFile, rdb_file |-> f] : f \in Snapshots }

\* the command lines and files of the processes of Spec, SpecSerial and SpecStore
ServedInputs ==
    { [argv |-> NoArguments, rdb_file |-> Missing],
      [argv |-> DirAndFile, rdb_file |-> Missing],
      [argv |-> DirAndFile, rdb_file |-> <<S_string(<<"j">>, <<"s">>), S_eof>>] }

\* what Redis::new can return: no arguments, so empty tables; --dir and
\* --dbfilename, so the tables the snapshot loader built (none without a file)
ConfigAtBoot == [k \in {W_dir, W_dbfilename} |-> IF k = W_dir THEN W_tmp ELSE W_rdb]
LoadedStore == [k \in {<<"j">>} |-> <<"s">>]

Boots ==
    { [store |-> EmptyMap, expiry_table |-> EmptyMap, config |-> EmptyMap],
      [store |-> EmptyMap, expiry_table |-> EmptyMap, config |-> ConfigAtBoot],
      [store |-> LoadedStore, expiry_table |-> EmptyMap, config |-> ConfigAtBoot] }

RdbIdle ==
    /\ rpc = "idle"
    /\ rslice = <<>>
    /\ rseek = 0
    /\ rres = <<>>

CodecIdle ==
    /\ cpc = "idle"
    /\ cval = Null
    /\ cwire = <<>>
    /\ cmeta = [shape |-> "value", head |-> <<>>, body |-> <<>>, cut |-> 0]
    /\ cres = [kind |-> "None"]

Init ==
    /\ boot \in Boots
    /\ \E p \in ServedInputs :
          /\ Redis_new(p.argv, PathContents(p.rdb_file)) = Ok(boot)
          /\ argv = p.argv
          /\ rdb_file = p.rdb_file
    /\ store = boot.store
    /\ expiry_table = boot.expiry_table
    /\ config = boot.config
    /\ actor = "running"
    /\ queue = <<>>
    /\ conn = [c \in Conns |-> "read"]
    /\ slot = [c \in Conns |-> 0]
    /\ arrived = <<>>
    /\ replies = <<>>
    /\ log = <<>>
    /\ now = 0
    /\ CodecIdle
    /\ RdbIdle

St == [store |-> store, expiry_table |-> expiry_table, config |-> config]

\* handle_connection: bytes were read; a fresh oneshot goes into the queue with
\* them (tx.send stalls while the queue is full) and the task awaits the oneshot
conn_send(c, m) ==
    /\ conn[c] = "read"
    /\ actor \in {"new", "running"}                       \* the receiver of the queue exists
    /\ Len(arrived) < MaxMessages
    /\ Len(queue) < QueueCapacity
    /\ queue' = Append(queue, [message |-> m, resp |-> Len(arrived) + 1])
    /\ arrived' = Append(arrived, m)
    /\ replies' = Append(replies, <<>>)
    /\ conn' = [conn EXCEPT ![c] = "await"]
    /\ slot' = [slot EXCEPT ![c] = Len(arrived) + 1]
    /\ UNCHANGED <<store, expiry_table, config, actor, log, now, boot, argv, rdb_file>>
    /\ UNCHANGED <<codecVars, rdbVars>>

\* handle_connection: tx.send(..).await.unwrap() when the receiving task is gone
conn_send_closed(c) ==
    /\ conn[c] = "read"
    /\ actor = "panicked"
    /\ conn' = [conn EXCEPT ![c] = "panicked"]
    /\ UNCHANGED <<store, expiry_table, config, actor, queue, slot, arrived, replies, log, now, boot, argv, rdb_file>>
    /\ UNCHANGED <<codecVars, rdbVars>>

\* conn_response, but without awaiting the oneshot
conn_response_unawaited(c) ==
    /\ conn[c] = "await"
    /\ conn' = [conn EXCEPT ![c] = "read"]
    /\ slot' = [slot EXCEPT ![c] = 0]
    /\ UNCHANGED <<store, expiry_table, config, actor, queue, arrived, replies, log, now, boot, argv, rdb_file>>
    /\ UNCHANGED <<codecVars, rdbVars>>

\* handle_connection: the response came on the oneshot and is written to the stream
conn_response(c) ==
    /\ conn[c] = "await"
    /\ replies[slot[c]] # <<>>
    /\ conn' = [conn EXCEPT ![c] = "read"]
    /\ slot' = [slot EXCEPT ![c] = 0]
    /\ UNCHANGED <<store, expiry_table, config, actor, queue, arrived, replies, log, now, boot, argv, rdb_file>>
    /\ UNCHANGED <<codecVars, rdbVars>>

\* handle_connection: resp_rx.await.unwrap() when the oneshot's sender was dropped unused
conn_response_lost(c) ==
    /\ conn[c] = "await"
    /\ actor = "panicked"
    /\ replies[slot[c]] = <<>>
    /\ conn' = [conn EXCEPT ![c] = "panicked"]
    /\ UNCHANGED <<store, expiry_table, config, actor, queue, slot, arrived, replies, log, now, boot, argv, rdb_file>>
    /\ UNCHANGED <<codecVars, rdbVars>>

\* handle_connection: a read of zero bytes ends the loop
conn_close(c) ==
    /\ conn[c] = "read"
    /\ conn' = [conn EXCEPT ![c] = "closed"]
    /\ UNCHANGED <<store, expiry_table, config, actor, queue, slot, arrived, replies, log, now, boot, argv, rdb_file>>
    /\ UNCHANGED <<codecVars, rdbVars>>

\* recv, but the newest message first
recv_newest(q) == [cmd |-> q[Len(q)], rest |-> SubSeq(q, 1, Len(q) - 1)]

\* rx.recv(): the oldest message of the queue, and the queue without it
recv(q) == [cmd |-> Head(q), rest |-> Tail(q)]

\* whether the oneshot's receiver still exists: its connection awaits it
receiver_open(resp) == \E c \in Conns : conn[c] = "await" /\ slot[c] = resp

\* accepting, but without waiting for Redis::new
accepting_before_new == actor \in {"new", "running"}

\* the task takes messages from the queue once the Redis struct exists
accepting == actor = "running"

\* SystemTime::now(): the wall clock, which any two readings may find moved on,
\* unchanged or set back
ClockReadings == 0..MaxTime

\* the task that owns the Redis struct: takes one message and handles it to
\* the end, with the clock at t; a panic ends the task and drops the queue
\* with all it holds
message_handler(t) ==
    /\ accepting
    /\ queue # <<>>
    /\ now' = t
    /\ LET r == recv(queue)
       IN  \E h \in handle_message(St, r.cmd.message, receiver_open(r.cmd.resp), t) :
             /\ store' = h.st.store
             /\ expiry_table' = h.st.expiry_table
             /\ config' = h.st.config
             /\ replies' = IF h.sent
                           THEN [replies EXCEPT ![r.cmd.resp] = Append(@, h.encoded_response)]
                           ELSE replies
             /\ actor' = IF h.panicked THEN "panicked" ELSE "running"
             /\ queue' = IF h.panicked THEN <<>> ELSE r.rest
             /\ log' = Append(log, [message |-> r.cmd.message, resp |-> r.cmd.resp,
                                    command |-> h.command,
                                    at |-> IF reads_clock(St, h.command) THEN t ELSE -1,
                                    response |-> h.response, sent |-> h.sent,
                                    panicked |-> h.panicked])
    /\ UNCHANGED <<conn, slot, arrived, boot, argv, rdb_file>>
    /\ UNCHANGED <<codecVars, rdbVars>>

Next ==
    \/ \E c \in Conns, m \in Messages : conn_send(c, m)
    \/ \E c \in Conns : conn_send_closed(c)
    \/ \E c \in Conns : conn_response(c)
    \/ \E c \in Conns : conn_response_lost(c)
    \/ \E c \in Conns : conn_close(c)
    \/ \E t \in ClockReadings : message_handler(t)

Spec == Init /\ [][Next]_vars

\* one client, every request of Requests (a single client is awaiting its
\* reply when the task panics, so it never sends to the closed queue)
Client == "c1"

NextSerial ==
    \/ \E m \in Requests : conn_send(Client, m)
    \/ conn_response(Client)
    \/ conn_response_lost(Client)
    \/ conn_close(Client)
    \/ \E t \in ClockReadings : message_handler(t)

SpecSerial == Init /\ [][NextSerial]_vars

\* one client, the SET and GET requests of StoreMessages (none of which makes
\* the task panic, so no reply is lost)
NextStore ==
    \/ \E m \in StoreMessages : conn_send(Client, m)
    \/ conn_response(Client)
    \/ conn_close(Client)
    \/ \E t \in ClockReadings : message_handler(t)

SpecStore == Init /\ [][NextStore]_vars

----------------------------------------------------------------------------
(* Connections that go away while their command is outstanding *)

\* handle_connection is dropped at resp_rx.await (its task is cancelled): the
\* receiver of its oneshot goes with it
conn_cancel(c) ==
    /\ conn[c] = "await"
    /\ conn' = [conn EXCEPT ![c] = "cancelled"]
    /\ UNCHANGED <<store, expiry_table, config, actor, queue, slot, arrived, replies, log, now, boot, argv, rdb_file>>
    /\ UNCHANGED <<codecVars, rdbVars>>

\* the requests the clients of SpecCancel send: none makes the task panic
CancelMessages ==
    { Request(<<W_SET, <<"k">>, <<"a">>>>),
      Request(<<W_GET, <<"k">>>>) }

NextCancel ==
    \/ \E c \in Conns, m \in CancelMessages : conn_send(c, m)
    \/ \E c \in Conns : conn_send_closed(c)
    \/ \E c \in Conns : conn_response(c)
    \/ \E c \in Conns : conn_response_lost(c)
    \/ \E c \in Conns : conn_close(c)
    \/ \E c \in Conns : conn_cancel(c)
    \/ \E t \in ClockReadings : message_handler(t)

SpecCancel == Init /\ [][NextCancel]_vars

----------------------------------------------------------------------------
(* One message handled on tables that earlier Sets left: the struct is drawn  *)
(* from what set makes of a struct Redis::new returned, a client has sent one *)
(* message and awaits its reply; arrived, replies and log tell what happens   *)
(* from there on.                                                             *)

\* one request of every command, and a second key
FrameMessages ==
    { Request(<<W_PING>>),
      Request(<<W_ECHO, <<"H", "i">>>>),
      Request(<<W_SET, <<"k">>, <<"a">>>>),
      Request(<<W_SET, <<"k">>, <<"b">>, W_PX, <<"1">>>>),
      Request(<<W_SET, <<"j">>, <<"a">>>>),
      Request(<<W_GET, <<"k">>>>),
      Request(<<W_KEYS, <<"*">>>>),
      Request(<<W_CONFIG, W_GET, W_dir>>),
      Request(<<W_FOO>>) }

\* the struct st, and what a Set of k, with or without px, at some clock
\* reading makes of it
TablesAfterSet(st) ==
    { [at |-> 0, st |-> st] }
      \cup { [at |-> t, st |-> set_tables(st, <<"k">>, v, e, t)]
               : t \in ClockReadings, v \in {<<"a">>, <<"b">>},
                 e \in {[some |-> FALSE, ms |-> 0], [some |-> TRUE, ms |-> 1]} }

InitFrame ==
    /\ boot \in Boots
    /\ \E p \in ServedInputs :
          /\ Redis_new(p.argv, PathContents(p.rdb_file)) = Ok(boot)
          /\ argv = p.argv
          /\ rdb_file = p.rdb_file
    /\ \E r \in TablesAfterSet(boot) :
          /\ store = r.st.store
          /\ expiry_table = r.st.expiry_table
          /\ config = r.st.config
          /\ now = r.at
    /\ actor = "running"
    /\ \E m \in FrameMessages :
          /\ queue = <<[message |-> m, resp |-> 1]>>
          /\ arrived = <<m>>
    /\ replies = <<<<>>>>
    /\ conn = [c \in Conns |-> IF c = Client THEN "await" ELSE "read"]
    /\ slot = [c \in Conns |-> IF c = Client THEN 1 ELSE 0]
    /\ log = <<>>
    /\ CodecIdle
    /\ RdbIdle

NextFrame == \E t \in ClockReadings : message_handler(t)

SpecFrame == InitFrame /\ [][NextFrame]_vars

----------------------------------------------------------------------------
(* The process from its start: Redis::new runs on the command line and the  *)
(* file at the path, then the task serves one client.                        *)

\* the requests the client of SpecBoot sends
BootMessages ==
    { Request(<<W_SET, <<"k">>, <<"a">>>>),
      Request(<<W_GET, <<"k">>>>),
      Request(<<W_KEYS, <<"*">>>>),
      Request(<<W_KEYS, <<"k">>>>),
      Request(<<W_CONFIG, W_GET, W_dir>>) }

NotBooted == [store |-> EmptyMap, expiry_table |-> EmptyMap, config |-> EmptyMap]

InitBoot ==
    /\ \E p \in Inputs : argv = p.argv /\ rdb_file = p.rdb_file
    /\ actor = "new"
    /\ boot = NotBooted
    /\ store = EmptyMap
    /\ expiry_table = EmptyMap
    /\ config = EmptyMap
    /\ queue = <<>>
    /\ conn = [c \in Conns |-> "read"]
    /\ slot = [c \in Conns |-> 0]
    /\ arrived = <<>>
    /\ replies = <<>>
    /\ log = <<>>
    /\ now = 0
    /\ CodecIdle
    /\ RdbIdle

\* Redis::new, once: the struct the task then owns; a panic unwinds before
\* the task takes a message, and the queue goes with it
redis_new ==
    /\ actor = "new"
    /\ LET redis == Redis_new(argv, PathContents(rdb_file))
       IN  IF redis.kind = "Ok"
           THEN /\ actor' = "running"
                /\ boot' = redis.v
                /\ store' = redis.v.store
                /\ expiry_table' = redis.v.expiry_table
                /\ config' = redis.v.config
                /\ queue' = queue
           ELSE /\ actor' = "panicked"
                /\ queue' = <<>>
                /\ UNCHANGED <<boot, store, expiry_table, config>>
    /\ UNCHANGED <<conn, slot, arrived, replies, log, now, argv, rdb_file>>
    /\ UNCHANGED <<codecVars, rdbVars>>

NextBoot ==
    \/ redis_new
    \/ \E m \in BootMessages : conn_send(Client, m)
    \/ conn_send_closed(Client)
    \/ conn_response(Client)
    \/ conn_response_lost(Client)
    \/ conn_close(Client)
    \/ \E t \in ClockReadings : message_handler(t)

SpecBoot == InitBoot /\ [][NextBoot]_vars

----------------------------------------------------------------------------
(* The codec on its own: encoded() applied to the values of a bounded set,   *)
(* decode() applied to what encoded() gave and to buffers put together from  *)
(* a declared length or count, the data or elements present and a cut        *)

MaxArrayLen == 2
MaxNest == 1

Leaves ==
    { SimpleString(<<"a">>), SimpleString(<<"a", LF>>), SimpleError(<<"e">>),
      SimpleError(<<CR, "e">>), Integer(-7), BulkString(<<>>), BulkString(<<"a", "b">>), Null, Boolean(TRUE) }

Fillers == { Null, Integer(-7) }

ArraysOver(S, n) == { Array(a) : a \in UNION { [1..k -> S] : k \in 0..n } }

Wrap(S) ==
    { Array(<<x>>) : x \in S }
      \cup { Array(<<x, y>>) : x \in S, y \in Fillers }
      \cup { Array(<<y, x>>) : x \in S, y \in Fillers }

RECURSIVE Values(_)
Values(d) ==
    IF d = 0 THEN Leaves \cup ArraysOver(Leaves, MaxArrayLen)
    ELSE Values(d - 1) \cup Wrap(Values(d - 1))

LenTexts == { <<"0">>, <<"1">>, <<"2">>, <<"5">>, <<"-", "1">>, <<"-", "2">>, <<"a">>, <<>> }
Datas == { <<>>, <<"a">>, <<"a", "b">> }
RawElems == { <<":", "1">> \o CRLF, <<"$", "1">> \o CRLF \o <<"a">> \o CRLF }
Cuts == 0..2


CutEnd(s, n) == SubSeq(s, 1, Len(s) - n)

RawBulk(m) == CutEnd(<<"$">> \o m.head \o CRLF \o Concat(m.body) \o CRLF, m.cut)
RawArray(m) == CutEnd(<<"*">> \o m.head \o CRLF \o Concat(m.body), m.cut)

NoMeta == [shape |-> "value", head |-> <<>>, body |-> <<>>, cut |-> 0]
NoResult == [kind |-> "None"]

RawMetas ==
    { [shape |-> "bulk", head |-> h, body |-> <<d>>, cut |-> c] :
        h \in LenTexts, d \in Datas, c \in Cuts }
      \cup { [shape |-> "array", head |-> h, body |-> b, cut |-> c] :
                h \in LenTexts,
                b \in UNION { [1..k -> RawElems] : k \in 0..MaxArrayLen },
                c \in Cuts }

StoreIdle ==
    /\ store = <<>>
    /\ expiry_table = <<>>
    /\ config = <<>>
    /\ actor = "running"
    /\ queue = <<>>
    /\ conn = <<>>
    /\ slot = <<>>
    /\ arrived = <<>>
    /\ replies = <<>>
    /\ log = <<>>
    /\ now = 0
    /\ boot = <<>>
    /\ argv = <<>>
    /\ rdb_file = <<>>

InitCodec ==
    /\ StoreIdle
    /\ RdbIdle
    /\ cres = NoResult
    /\ \/ /\ cpc = "value"
          /\ cval \in Values(MaxNest)
          /\ cmeta = NoMeta
          /\ cwire = <<>>
       \/ /\ cpc = "raw"
          /\ cval = Null
          /\ cmeta \in RawMetas
          /\ cwire = IF cmeta.shape = "bulk" THEN RawBulk(cmeta) ELSE RawArray(cmeta)

\* Resp::encoded on the value
CodecEncode ==
    /\ cpc = "value"
    /\ LET e == encoded(cval)
       IN  IF e.kind = "Ok"
           THEN cpc' = "encoded" /\ cwire' = e.v
           ELSE cpc' = "encode_err" /\ cwire' = cwire
    /\ UNCHANGED <<cval, cmeta, cres>>
    /\ UNCHANGED <<storeVars, rdbVars>>

\* Resp::decode on the buffer
CodecDecode ==
    /\ cpc \in {"encoded", "raw"}
    /\ cres' = decode(cwire)
    /\ cpc' = "decoded"
    /\ UNCHANGED <<cval, cmeta, cwire>>
    /\ UNCHANGED <<storeVars, rdbVars>>

NextCodec == CodecEncode \/ CodecDecode

SpecCodec == InitCodec /\ [][NextCodec]_vars

----------------------------------------------------------------------------
(* Properties of the server *)

\* the Sets on key k handled before the i-th message
SetsBefore(i, k) ==
    { j \in 1..(i - 1) : log[j].command.c = "Set" /\ log[j].command.key = k /\ ~log[j].panicked }
LastSet(i, k) == CHOOSE j \in SetsBefore(i, k) : \A x \in SetsBefore(i, k) : x <= j

\* the milliseconds of the px option a handled Set carried
PxOf(j) == parse_unsigned(log[j].command.options[Len(log[j].command.options)].value).v

\* the struct after the i-th handled command is applied to st at the clock
\* reading its handling took (a message that is no command, or a command that
\* panics, changes nothing)
Apply(st, i) ==
    IF log[i].command = NoCommand THEN st
    ELSE LET d == CHOOSE d \in handle_command(st, log[i].command, log[i].at) : TRUE
         IN  IF d.kind = "Ok" THEN d.st ELSE st

\* the struct after applying, one after the other from st, the commands i..n
\* of the log
RECURSIVE ReplayFrom(_, _, _)
ReplayFrom(st, i, n) == IF i > n THEN st ELSE ReplayFrom(Apply(st, i), i + 1, n)

\* the struct after replaying sequentially, from the struct at boot, the
\* first n handled commands
Replay(n) == ReplayFrom(boot, 1, n)

C2_ExactlyOneReply ==
    \A i \in 1..Len(arrived) :
        Len(replies[i]) = Cardinality({ j \in 1..Len(log) : log[j].resp = i })
        /\ (i <= Len(log) => Len(replies[i]) = 1)

\* C3: a connection that awaits the reply to the command it enqueued is never
\* left without one: the reply is there, or the command is in the queue of the
\* running task (which, scheduled fairly, takes every queued command in turn).
C3_NoConnectionLeftWaiting ==
    \A c \in Conns :
        conn[c] = "await" =>
            \/ replies[slot[c]] # <<>>
            \/ actor = "running" /\ \E i \in 1..Len(queue) : queue[i].resp = slot[c]

\* C4: a Get of key k handled after a Set of k without PX, with no other Set of
\* k in between, replies the BulkString of that Set's value; a Get of a key
\* never set and not in the snapshot replies Null.
C4_GetAfterSet ==
    \A i \in 1..Len(log) :
        log[i].command.c = "Get" =>
            LET k == log[i].command.key
            IN  IF SetsBefore(i, k) # {}
                THEN log[LastSet(i, k)].command.options = <<>> =>
                        /\ log[i].sent
                        /\ log[i].response = BulkString(log[LastSet(i, k)].command.value)
                ELSE k \notin DOMAIN boot.store => log[i].sent /\ log[i].response = Null

\* a Get replied the value of the latest Set, which overwrote an earlier one
C4_Witness ==
    \E i \in 1..Len(log) :
        /\ log[i].command.c = "Get"
        /\ Cardinality(SetsBefore(i, log[i].command.key)) >= 2
        /\ log[LastSet(i, log[i].command.key)].command.options = <<>>
        /\ log[i].response = BulkString(log[LastSet(i, log[i].command.key)].command.value)

\* C5: after Set{k, v, PX ms} handled at time t the deadline of k is t + ms, and
\* with no later Set of k a Get of k handled at a time >= t + ms replies Null
\* and one handled at a time < t + ms replies v.
C5_ExpiryAtDeadline ==
    \A i \in 1..Len(log) :
        (log[i].command.c = "Set" /\ log[i].command.options # <<>> /\ ~log[i].panicked
           /\ SetsBefore(Len(log) + 1, log[i].command.key) # {}
           /\ LastSet(Len(log) + 1, log[i].command.key) = i)
        => /\ log[i].command.key \in DOMAIN expiry_table
           /\ expiry_table[log[i].command.key] = log[i].at + PxOf(i)
           /\ \A g \in (i + 1)..Len(log) :
                 (log[g].command.c = "Get" /\ log[g].command.key = log[i].command.key) =>
                     log[g].response = IF log[g].at >= log[i].at + PxOf(i)
                                       THEN Null
                                       ELSE BulkString(log[i].command.value)

\* C6: a Set of k without PX removes the deadline an earlier Set of k recorded:
\* the expiry table has no entry for k, and a Get of k replies the new value
\* whatever the time.
C6_SetWithoutPxClearsDeadline ==
    \A i \in 1..Len(log) :
        (log[i].command.c = "Set" /\ log[i].command.options = <<>>
           /\ LastSet(Len(log) + 1, log[i].command.key) = i
           /\ \E j \in SetsBefore(i, log[i].command.key) : log[j].command.options # <<>>)
        => /\ log[i].command.key \notin DOMAIN expiry_table
           /\ \A g \in (i + 1)..Len(log) :
                 (log[g].command.c = "Get" /\ log[g].command.key = log[i].command.key) =>
                     log[g].response = BulkString(log[i].command.value)

\* Set PX, then Set without PX, then a Get that replied the new value, with the
\* clock past the first Set's deadline
C6_Witness ==
    /\ Len(log) = 3
    /\ log[1].command.c = "Set" /\ log[1].command.options # <<>>
    /\ log[2].command.c = "Set" /\ log[2].command.options = <<>>
    /\ log[2].command.key = log[1].command.key
    /\ log[3].command.c = "Get" /\ log[3].command.key = log[1].command.key
    /\ log[3].response = BulkString(log[2].command.value)
    /\ now > log[1].at + PxOf(1)

\* C7: a request that lacks a required argument, or a SET with an unrecognized
\* option name, ends as an error of that command only: the task does not
\* panic, the tables are unchanged and the reply is sent.
C7_ArgumentErrorIsRecoverable ==
    \A i \in 1..Len(log) :
        log[i].message \in MissingArgument \cup UnknownOption =>
            ~log[i].panicked /\ log[i].sent /\ Replay(i) = Replay(i - 1)

\* C8: a request whose command name is not in the table is answered with a
\* SimpleError that names the command, and the task goes on.
C8_UnknownCommandIsAnswered ==
    \A i \in 1..Len(log) :
        log[i].command.c = "NotImplemented" =>
            /\ ~log[i].panicked
            /\ log[i].sent
            /\ log[i].response = SimpleError(T_ERR_head \o log[i].command.cmd \o T_ERR_tail)
            /\ Replay(i) = Replay(i - 1)

----------------------------------------------------------------------------
(* Properties of the codec *)

\* C9: decode(encode(v)) succeeds and is structurally equal to v, for every
\* value v that encodes.
C9_RoundTrip ==
    (cpc = "decoded" /\ cmeta.shape = "value") => cres = Ok(cval)

\* what the buffer declares: the value of its length or count
Declared(m) == parse_unsigned(m.head).v
\* a declared length or count that is no non-negative integer (nor the -1 of the null bulk string)
InvalidLength(m) == ~AllDigits(m.head) /\ ~(m.shape = "bulk" /\ m.head = <<"-", "1">>)
\* fewer data bytes or elements than declared
ShorterThanDeclared(m) ==
    /\ AllDigits(m.head)
    /\ Declared(m) > (IF m.shape = "bulk" THEN Len(m.body[1]) ELSE Len(m.body))

\* C10: decode returns Err, and does not panic, for a buffer without its
\* terminator, with a declared length or count that is no non-negative
\* integer, or with fewer bytes or elements than declared.
C10_MalformedIsErr ==
    (cpc = "decoded" /\ cmeta.shape # "value"
       /\ (~ends_with(cwire, CRLF) \/ InvalidLength(cmeta) \/ ShorterThanDeclared(cmeta)))
    => cres.kind = "Err"

----------------------------------------------------------------------------
(* Properties of the commands *)

\* the request as the client sent it: the elements of its array, or none
SentArgs(message) ==
    LET d == decode(message)
    IN  IF d.kind = "Ok" /\ d.v.t = "Array" THEN d.v.a ELSE <<>>

\* C11: a request ECHO m is answered with the BulkString of the bytes of m as
\* the client sent them, letter case preserved.
C11_EchoUnchanged ==
    \A i \in 1..Len(log) :
        LET sent == SentArgs(log[i].message)
        IN  (Len(sent) = 2 /\ to_lowercase(to_string(sent[1])) = T_echo) =>
                log[i].sent /\ log[i].response = BulkString(to_string(sent[2]))

----------------------------------------------------------------------------
(* Properties of the start of the process *)

\* Redis::new has returned / has panicked (no request of SpecBoot makes the
\* task panic later)
Booted == actor = "running"
BootPanicked == actor = "panicked"

\* the opcodes the loader has an arm for
KnownOps == {"aux", "selectdb", "resizedb", "string", "eof"}
AllKnown(sections) == \A i \in 1..Len(sections) : sections[i].op \in KnownOps

\* the (key, value) pairs of the string records of a file, a later record of
\* a key replacing an earlier one
Recorded(sections) ==
    LET recs == { i \in 1..Len(sections) : sections[i].op = "string" }
        last(k) == CHOOSE i \in recs :
                      sections[i].key = k /\ \A j \in recs : sections[j].key = k => j <= i
    IN  [k \in { sections[i].key : i \in recs } |-> sections[last(k)].value]

\* C12: started with --dir and --dbfilename, a missing file and a file of
\* magic, version and end sentinel give empty tables; a file of auxiliary,
\* database-selector, size-hint and string-record sections gives a keyspace of
\* exactly the pairs of its string records, and an empty expiry table.
C12_SnapshotLoadResult ==
    (actor # "new" /\ argv = DirAndFile /\ (rdb_file = Missing \/ AllKnown(rdb_file))) =>
        /\ Booted
        /\ boot.store = (IF rdb_file = Missing THEN EmptyMap ELSE Recorded(rdb_file))
        /\ boot.expiry_table = EmptyMap

\* C13: when the file has a section whose opcode the loader has no arm for,
\* the process still comes to serve: Redis::new returns, with the tables empty
\* (the load given up) or holding the string records (the section skipped).
C13_UnknownOpcodePolicy ==
    (actor # "new" /\ argv = DirAndFile /\ rdb_file # Missing /\ ~AllKnown(rdb_file)) =>
        /\ Booted
        /\ boot.store \in {EmptyMap, Recorded(rdb_file)}

----------------------------------------------------------------------------
(* Properties of the queue and of the connections *)

C15_ClosedConnectionDoesNotStopActor ==
    \A i \in 1..Len(log) :
        (\E c \in Conns : conn[c] = "cancelled" /\ slot[c] = i) =>
            /\ ~log[i].panicked
            /\ log[i].command # NoCommand
            /\ actor = "running"

\* C16: ConfigGet{key} replies the Array [BulkString key, BulkString value]
\* when the config made at the start holds key, and Null when it does not; no
\* command changes the config, so the reply to ConfigGet{key} is the same
\* wherever it stands in the sequence of commands.
C16_ConfigGetReply ==
    /\ actor # "new" => config = boot.config
    /\ \A i \in 1..Len(log) :
          log[i].command.c = "ConfigGet" =>
              /\ log[i].sent
              /\ log[i].response =
                    IF log[i].command.key \in DOMAIN boot.config
                    THEN Array(<<BulkString(log[i].command.key),
                                 BulkString(boot.config[log[i].command.key])>>)
                    ELSE Null

\* CONFIG GET dir was answered with the pair (dir, /tmp) after a Set was applied
C16_Witness ==
    \E i, j \in 1..Len(log) :
        /\ i < j
        /\ log[i].command.c = "Set" /\ log[i].sent
        /\ log[j].command = ConfigGet(W_dir)
        /\ log[j].response = Array(<<BulkString(W_dir), BulkString(W_tmp)>>)

\* the keys of the keyspace when the i-th message is handled: those of the
\* start and those of the Sets handled before it
KeysAt(i) ==
    (DOMAIN boot.store)
      \cup { log[j].command.key : j \in { x \in 1..(i - 1) : log[x].command.c = "Set" /\ ~log[x].panicked } }

\* C17: Keys{pattern} replies an Array of BulkStrings that holds every key of
\* the keyspace exactly once and nothing else, whatever the pattern.
C17_KeysRepliesAllKeys ==
    \A i \in 1..Len(log) :
        log[i].command.c = "Keys" =>
            /\ log[i].sent
            /\ log[i].response.t = "Array"
            /\ Len(log[i].response.a) = Cardinality(KeysAt(i))
            /\ { log[i].response.a[x] : x \in 1..Len(log[i].response.a) }
                  = { BulkString(k) : k \in KeysAt(i) }

\* two Keys with different patterns, handled one after the other on a keyspace
\* of two keys, were answered with the same two keys
C17_Witness ==
    /\ Len(log) >= 2
    /\ log[1].command.c = "Keys" /\ log[2].command.c = "Keys"
    /\ log[1].command.pattern # log[2].command.pattern
    /\ Len(log[1].response.a) = 2
    /\ Range(log[1].response.a) = Range(log[2].response.a)

----------------------------------------------------------------------------
(* Properties of the encoder *)

RECURSIVE HasControlText(_)
\* a SimpleString or SimpleError with a carriage return or a line feed in its
\* text, or an Array with such a value among its elements, at any depth
HasControlText(v) ==
    CASE v.t = "SimpleString" -> contains(v.s, CR) \/ contains(v.s, LF)
      [] v.t = "SimpleError" -> contains(v.e, CR) \/ contains(v.e, LF)
      [] v.t = "Array" -> \E i \in 1..Len(v.a) : HasControlText(v.a[i])
      [] OTHER -> FALSE

\* C19: encoding a SimpleString or SimpleError whose text holds a carriage
\* return or a line feed fails and gives no output, and so does encoding an
\* Array that has such a value among its elements, at any depth.
C19_ControlTextFailsToEncode ==
    (cpc \in {"encoded", "encode_err"} /\ HasControlText(cval)) =>
        (cpc = "encode_err" /\ cwire = <<>>)

\* the encoding of an Array failed for a SimpleError with a carriage return
\* inside an Array inside it
C19_Witness ==
    /\ cpc = "encode_err"
    /\ cval.t = "Array"
    /\ \E i \in 1..Len(cval.a) :
          /\ cval.a[i].t = "Array"
          /\ \E j \in 1..Len(cval.a[i].a) : cval.a[i].a[j] = SimpleError(<<CR, "e">>)

----------------------------------------------------------------------------
(* Frame of the commands *)

\* the entries of map m other than key's are those of map n
SameButFor(m, n, key) ==
    /\ (DOMAIN m) \ {key} = (DOMAIN n) \ {key}
    /\ \A x \in (DOMAIN m) \ {key} : m[x] = n[x]

\* C20: handling a message that is no Set leaves keyspace, expiry table and
\* config as they were (a Get of an expired key too: it replies Null and the
\* key stays in both tables); handling Set{k, ..} leaves the entries of every
\* other key in both tables, and the config, as they were.
C20_OnlySetChangesTheStore ==
    [][ log' # log =>
          LET command == log'[Len(log')].command
          IN  IF command.c = "Set"
              THEN /\ SameButFor(store, store', command.key)
                   /\ SameButFor(expiry_table, expiry_table', command.key)
                   /\ config' = config
              ELSE /\ store' = store
                   /\ expiry_table' = expiry_table
                   /\ config' = config ]_vars

\* a Get of a key past its deadline replied Null and the key is still in both
\* tables
C20_Witness ==
    /\ Len(log) = 1
    /\ log[1].command = Get(<<"k">>)
    /\ log[1].response = Null
    /\ <<"k">> \in DOMAIN store
    /\ <<"k">> \in DOMAIN expiry_table
    /\ expiry_table[<<"k">>] < log[1].at

----------------------------------------------------------------------------
(* Expiry as Keys and the clock see it *)

\* C21: a key that Get, handled at the same clock reading on the same tables,
\* replies Null for is not in the reply to Keys, and Get replies a value for
\* every key that is in it.
C21_KeysSkipsExpired ==
    (Len(log) = 1 /\ log[1].command.c = "Keys" /\ log[1].sent) =>
        \A x \in 1..Len(log[1].response.a) :
            get(St, log[1].response.a[x].b, now).response # Null

----------------------------------------------------------------------------
(* Properties of the decoders' cursors *)

\* C22: an Array of bulk strings (of any length, 0 too), Nulls and Integers,
\* with a bulk string or a Null at any position, decodes from its encoding to
\* as many elements as it has, each the one encoded, in wire order: every bulk
\* string and every Null consumes its own bytes and no others.
C22_BulkStringConsumesItsOwnBytes ==
    (/\ cpc = "decoded" /\ cmeta.shape = "value"
     /\ cval.t = "Array"
     /\ \A i \in 1..Len(cval.a) : cval.a[i].t \in {"BulkString", "Null", "Integer"}
     /\ \E i \in 1..Len(cval.a) : cval.a[i].t \in {"BulkString", "Null"})
    => /\ cres.kind = "Ok"
       /\ cres.v.t = "Array"
       /\ Len(cres.v.a) = Len(cval.a)
       /\ \A i \in 1..Len(cval.a) : cres.v.a[i] = cval.a[i]

----------------------------------------------------------------------------
(* The length-encoded strings of the snapshot loader, read one after another
   with one cursor, as the arms 0xFA and 0x0 of load_from_path read them *)

\* strings as a snapshot file holds them
RdbItems ==
    { <<0>>,                                       \* 6 bits: the empty string
      <<1, 97>>,                                   \* 6 bits: "a"
      <<2, 98, 255>>,                              \* 6 bits: 'b' and a byte that is no UTF-8
      <<64, 1, 99>>,                               \* 14 bits: length 1
      <<65, 2, 100>>,                              \* 14 bits: length 258, cut short
      <<128, 2, 0, 0, 0, 101, 102>>,               \* 32 bits: length 2, lowest byte first
      <<128, 0, 0, 0, 2, 101, 102>>,               \* 32 bits: length 2, highest byte first
      <<192, 7>>,                                  \* an 8-bit integer
      <<193, 1, 2>>,                               \* a 16-bit integer
      <<194, 3, 4, 0, 0>>,                         \* a 32-bit integer
      <<195, 1, 1, 97>>,                           \* a compressed string
      <<3, 97>> }                                  \* 6 bits: cut short

\* what comes before the strings in the file: the magic, the version, and
\* the opcode of a string record, that of an auxiliary field, or none
RdbPrefixes ==
    { REDIS \o <<48, 48, 48, 51>> \o opcode : opcode \in { <<0>>, <<250>>, <<>> } }

InitRdb ==
    /\ StoreIdle
    /\ CodecIdle
    /\ rpc = "cursor"
    /\ rres = <<>>
    /\ \E prefix \in RdbPrefixes, key \in RdbItems, value \in RdbItems :
           /\ rslice = prefix \o key \o value
           /\ rseek \in 0..Len(prefix)

NoText == <<"0xNone">>

\* let length_encoding = Rdb::read_length_encoding(slice, &mut seek);
RdbReadLengthEncoding ==
    /\ rpc = "cursor"
    /\ LET r == read_length_encoding(rslice, rseek)
       IN  IF r.kind # "Ok"
           THEN /\ rpc' = "panicked"
                /\ UNCHANGED <<rseek, rres>>
           ELSE /\ rpc' = "length"
                /\ rseek' = r.seek
                /\ rres' = Append(rres, [at |-> rseek, length_encoding |-> r.v, seek |-> r.seek,
                                         done |-> FALSE, text |-> NoText, end |-> r.seek])
    /\ UNCHANGED rslice
    /\ UNCHANGED <<storeVars, codecVars>>

\* length_encoding.decode_from(slice, &mut seek)
RdbDecodeFrom ==
    /\ rpc = "length"
    /\ LET last == rres[Len(rres)]
           r == decode_from(last.length_encoding, rslice, rseek)
       IN  IF r.kind # "Ok"
           THEN /\ rpc' = "panicked"
                /\ UNCHANGED <<rseek, rres>>
           ELSE /\ rpc' = "cursor"
                /\ rseek' = r.seek
                /\ rres' = [rres EXCEPT ![Len(rres)] =
                               [last EXCEPT !.done = TRUE, !.text = r.v, !.end = r.seek]]
    /\ UNCHANGED rslice
    /\ UNCHANGED <<storeVars, codecVars>>

NextRdb == RdbReadLengthEncoding \/ RdbDecodeFrom

SpecRdb == InitRdb /\ [][NextRdb]_vars

\* the bytes of slice at the 0-based positions from..from+n-1
BytesAt(from, n) == SubSeq(rslice, from + 1, from + n)

\* the width in bytes of the integer format
IntWidth(format) == IF format = 0 THEN 1 ELSE IF format = 1 THEN 2 ELSE 4

\* the integer that width bytes hold: 16 bits highest byte first, 32 bits
\* lowest byte first, the orders decode_from combines them in
IntValue(bytes) ==
    IF Len(bytes) = 1 THEN bytes[1]
    ELSE IF Len(bytes) = 2 THEN bytes[1] * 256 + bytes[2]
    ELSE bytes[1] + bytes[2] * 256 + bytes[3] * 65536 + bytes[4] * 16777216

\* C23: an integer of format 0, 1 or 2 that has been decoded is the decimal
\* text of the 1, 2 or 4 bytes at the cursor where decode_from began, and the
\* cursor has advanced by that width.
C23_IntegerReadAtCursor ==
    \A i \in 1..Len(rres) :
        (rres[i].done /\ rres[i].length_encoding.enc = "Encoded") =>
            LET width == IntWidth(rres[i].length_encoding.n)
            IN  /\ rres[i].end = rres[i].seek + width
                /\ rres[i].seek + width <= Len(rslice)
                /\ rres[i].text = fmt_int(IntValue(BytesAt(rres[i].seek, width)))

\* the length that the tag of the byte at the 0-based position at announces,
\* and the number of bytes that announce it
TagOf(at) == rslice[at + 1] \div 64
LengthAt(at) ==
    IF TagOf(at) = 0 THEN rslice[at + 1] % 64
    ELSE IF TagOf(at) = 1 THEN (rslice[at + 1] % 64) * 256 + rslice[at + 2]
    ELSE rslice[at + 2] + rslice[at + 3] * 256 + rslice[at + 4] * 65536
           + rslice[at + 5] * 16777216
LengthBytes(at) == IF TagOf(at) = 0 THEN 1 ELSE IF TagOf(at) = 1 THEN 2 ELSE 5

\* C24: for each string read whose first byte has the tag 00, 01 or 10, the
\* length is the 6 low bits, the 6 low bits and the next byte, or the 32 bits
\* of the four next bytes, and 1, 2 or 5 bytes are consumed for it; the text
\* is that of the next length bytes and the cursor ends right after them;
\* and each string begins where the one before it ended.
C24_LengthEncoding ==
    /\ \A i \in 1..Len(rres) :
           TagOf(rres[i].at) # 3 =>
               /\ rres[i].length_encoding.enc =
                      (IF TagOf(rres[i].at) = 0 THEN "SixBit"
                       ELSE IF TagOf(rres[i].at) = 1 THEN "FourteenBit" ELSE "ThirtyTwoBit")
               /\ rres[i].length_encoding.n = LengthAt(rres[i].at)
               /\ rres[i].seek = rres[i].at + LengthBytes(rres[i].at)
               /\ rres[i].done =>
                      /\ rres[i].end = rres[i].seek + LengthAt(rres[i].at)
                      /\ rres[i].end <= Len(rslice)
                      /\ rres[i].text =
                             from_utf8_lossy(BytesAt(rres[i].seek, LengthAt(rres[i].at)))
    /\ \A i \in 2..Len(rres) : rres[i - 1].done /\ rres[i].at = rres[i - 1].end
    /\ (rpc = "cursor" /\ rres # <<>>) => rseek = rres[Len(rres)].end

\* C24's case: a key of the 14-bit form and a value of the 32-bit form, both
\* with bytes in them, have been read one after the other
C24_Witness ==
    /\ Len(rres) = 2
    /\ rres[1].done /\ rres[2].done
    /\ rres[1].length_encoding = FourteenBit(1)
    /\ rres[1].text = <<"c">>
    /\ rres[2].length_encoding = ThirtyTwoBit(2)
    /\ rres[2].text = <<"e", "f">>

----------------------------------------------------------------------------
(* main.rs as it is written: its own Command, of the one variant Ping, and a
   task that answers every Command with "+PONG\r\n"; neither the codec, nor
   the interpreter, nor the Redis struct is called *)

\* main.rs Command::Ping { resp }
Command_Ping(resp) == [c |-> "Ping", resp |-> resp]

\* "+PONG\r\n".to_string()
PONG == <<"+", "P", "O", "N", "G", CR, LF>>

\* the requests the clients of SpecMain send
MainMessages ==
    { Request(<<W_PING>>),
      Request(<<W_GET, <<"k">>>>) }

InitMain ==
    /\ store = EmptyMap
    /\ expiry_table = EmptyMap
    /\ config = EmptyMap
    /\ actor = "running"
    /\ queue = <<>>
    /\ conn = [c \in Conns |-> "read"]
    /\ slot = [c \in Conns |-> 0]
    /\ arrived = <<>>
    /\ replies = <<>>
    /\ log = <<>>
    /\ now = 0
    /\ boot = <<>>
    /\ argv = NoArguments
    /\ rdb_file = Missing
    /\ CodecIdle
    /\ RdbIdle

\* handle_connection: the bytes m were read and are not looked at; a
\* Command::Ping with a fresh oneshot goes into the queue
main_send(c, m) ==
    /\ conn[c] = "read"
    /\ Len(arrived) < MaxMessages
    /\ Len(queue) < QueueCapacity
    /\ queue' = Append(queue, Command_Ping(Len(arrived) + 1))
    /\ arrived' = Append(arrived, m)
    /\ replies' = Append(replies, <<>>)
    /\ conn' = [conn EXCEPT ![c] = "await"]
    /\ slot' = [slot EXCEPT ![c] = Len(arrived) + 1]
    /\ UNCHANGED <<store, expiry_table, config, actor, log, now, boot, argv, rdb_file>>
    /\ UNCHANGED <<codecVars, rdbVars>>

\* the message_handler task of main: rx.recv(), then the one arm of its match
main_message_handler ==
    /\ queue # <<>>
    /\ LET cmd == recv(queue).cmd
       IN  /\ replies' = [replies EXCEPT ![cmd.resp] = Append(@, PONG)]
           /\ log' = Append(log, [message |-> arrived[cmd.resp], resp |-> cmd.resp,
                                  command |-> Ping, at |-> -1,
                                  response |-> SimpleString(T_PONG), sent |-> TRUE,
                                  panicked |-> FALSE])
    /\ queue' = recv(queue).rest
    /\ UNCHANGED <<store, expiry_table, config, actor, conn, slot, arrived, now, boot, argv, rdb_file>>
    /\ UNCHANGED <<codecVars, rdbVars>>

NextMain ==
    \/ \E c \in Conns, m \in MainMessages : main_send(c, m)
    \/ main_message_handler
    \/ \E c \in Conns : conn_response(c)
    \/ \E c \in Conns : conn_close(c)

SpecMain == InitMain /\ [][NextMain]_vars

\* C25: the command executed for a request is the one that the bytes read
\* for it decode to, and what is written back is the encoding of the reply to
\* that command on the tables of the moment.
C25_RepliesOfOwnCommands ==
    \A i \in 1..Len(log) :
        \E h \in handle_message(St, arrived[log[i].resp], TRUE, now) :
            /\ log[i].command = h.command
            /\ replies[log[i].resp] = <<h.encoded_response>>

----------------------------------------------------------------------------
(* Expiry and the clock *)

\* C26: once a Get of a key has replied Null, every later Get of that key
\* replies Null too, unless a Set of the key was handled in between, at
\* whatever readings of the clock the messages are handled.
C26_ExpiredStaysExpired ==
    \A i, j \in 1..Len(log) :
        (/\ i < j
         /\ log[i].command.c = "Get" /\ log[j].command.c = "Get"
         /\ log[i].command.key = log[j].command.key
         /\ log[i].response = Null
         /\ \A x \in (i + 1)..(j - 1) :
                ~(log[x].command.c = "Set" /\ log[x].command.key = log[i].command.key))
        => log[j].response = Null

----------------------------------------------------------------------------
(* One command per connection *)

\* each queued command is awaited by one connection, no two by the same, and
\* a connection that is reading or has ended awaits none
OneOutstanding ==
    /\ \A i \in 1..Len(queue) : \E c \in Conns : conn[c] = "await" /\ slot[c] = queue[i].resp
    /\ \A i, j \in 1..Len(queue) : i # j => queue[i].resp # queue[j].resp
    /\ \A c \in Conns : conn[c] \in {"read", "closed"} => slot[c] = 0
    /\ \A c, d \in Conns : (c # d /\ slot[c] # 0) => slot[c] # slot[d]
    /\ \A c \in Conns : (conn[c] = "await" /\ replies[slot[c]] = <<>>) =>
           \E i \in 1..Len(queue) : queue[i].resp = slot[c]

\* C27: at every step each connection has at most one command outstanding;
\* a command is enqueued only by a connection that awaits nothing, with a
\* oneshot no command had before; a connection returns to reading only with
\* the reply on its oneshot; and a connection that ends enqueues nothing. So
\* the oneshots of a connection, and the replies written from them, follow
\* the order of its requests.
C27_OneCommandOutstanding ==
    [][ /\ OneOutstanding'
        /\ queue' # queue /\ Len(queue') > Len(queue) =>
               \E c \in Conns :
                   /\ conn[c] = "read" /\ slot[c] = 0
                   /\ conn'[c] = "await" /\ slot'[c] = Len(arrived) + 1
                   /\ replies'[slot'[c]] = <<>>
                   /\ queue' = Append(queue, queue'[Len(queue')])
                   /\ queue'[Len(queue')].resp = slot'[c]
                   /\ \A d \in Conns \ {c} : slot[d] < slot'[c]
        /\ \A c \in Conns :
               (conn[c] = "await" /\ conn'[c] = "read") =>
                   /\ replies[slot[c]] # <<>>
                   /\ \A i \in 1..Len(queue) : queue[i].resp # slot[c]
        /\ \A c \in Conns :
               (conn[c] # "closed" /\ conn'[c] = "closed") =>
                   /\ conn[c] = "read"
                   /\ UNCHANGED <<queue, arrived, replies>>
      ]_vars

\* C27's case: both connections await a reply to a command of theirs, one of
\* them after a first command of its own was answered and written
C27_Witness ==
    /\ Len(arrived) = 3
    /\ replies[1] # <<>>
    /\ \A c \in Conns : conn[c] = "await" /\ slot[c] \in {2, 3}
    /\ Len(queue) = 2

----------------------------------------------------------------------------
(* The two tables together *)

\* C28: every key that has a deadline in expiry_table has a value in store.
C28_DeadlineOnlyWithValue ==
    \A key \in DOMAIN expiry_table : key \in DOMAIN store

\* C28's case: on a store loaded from a snapshot, a Set with PX has been
\* handled, and a Get after it
C28_Witness ==
    /\ boot.store # EmptyMap
    /\ Len(log) = 3
    /\ log[2].command.c = "Set" /\ log[2].command.options # <<>>
    /\ log[3].command.c = "Get"
    /\ DOMAIN expiry_table # {}

====
